---- MODULE Spec2Model ----
(***************************************************************************)
(* A model of the chained hashmap of src/hashmap.c.                        *)
(*                                                                         *)
(* A bucket chain (struct _hashbucket_s linked through ->next) is a        *)
(* sequence of entries, head first.  Value references are records: NULL,   *)
(* a reference of the caller, or a reference returned by                   *)
(* value_clone_function (numbered, so that two clones of one value are     *)
(* two references).                                                        *)
(*                                                                         *)
(* memcmp is called with the length of the probe key only.  When the       *)
(* stored key copy is shorter than that length and agrees with the probe   *)
(* on all of its own bytes, memcmp reads past the end of the allocation:   *)
(* the result of that read is not determined by the program and is a       *)
(* nondeterministic input (`over`) of the operation.                       *)
(***************************************************************************)
EXTENDS Integers, Sequences, FiniteSets, TLC

\* ---------------------------------------------------------------- bounds
MaxEntries == 3
MaxWatchEntries == 2
MaxCap == 2
MaxSizingCap == 90
MaxLongEntries == 2
MaxLoggedEntries == 2

\* ------------------------------------------------------- program constants
\* uint8_t key_size and shifts: values are kept modulo 2^8
KeySizeMod == 256
\* uint32_t and int: 32 bits; a uint32_t is held as <<high half, low half>>
WordBits == 32
Half == 65536
\* uint32_t bucketcount, hashmask and hash: every such value below stays under
\* 2^30 (requested counts are at most MaxSizingCap, hashes are sums of the
\* bytes of a short key), so the 32-bit operations on them do not wrap.

\* ------------------------------------------------------------ inputs
Bytes == {1, 2}
\* the keys of the callers: the empty key, and keys of one and two bytes
Keys == {<<>>, <<1>>, <<2>>, <<1, 2>>, <<2, 1>>}
HashIds == {"sum", "first"}
\* the keys of the logged calls: the empty key, a key, and a longer key that
\* begins with it and that the byte-sum hash sends to another bucket
LoggedKeys == {<<>>, <<2>>, <<2, 1>>}
\* a key of n bytes: n - 1 bytes 1, then the byte b
Long(n, b) == [i \in 1..n |-> IF i = n THEN b ELSE 1]
\* keys whose length does not fit the uint8_t key_size, and a short one
LongKeys == {<<1>>, Long(KeySizeMod, 1), Long(KeySizeMod + 1, 1),
             Long(KeySizeMod + 1, 2)}

NULL == [kind |-> "null", of |-> <<>>, n |-> 0]
Caller(v) == [kind |-> "caller", of |-> <<>>, n |-> v]
\* the n-th reference value_clone_function made for an entry of key `key`
Clone(key, n) == [kind |-> "clone", of |-> key, n |-> n]
CallerValues == {NULL, Caller(1)}

VARIABLES
    phase,          \* "none": no map (map == NULL), "live", "destroyed"
    bucketcount,    \* map->bucketcount
    hashmask,       \* map->hashmask
    buckets,        \* map->buckets: [0..bucketcount-1 -> chain]
    hashfn,         \* map->hashmap_hash_function
    clonefn,        \* map->value_clone_function # NULL
    freefn,         \* map->value_free_function # NULL
    last,           \* the last call: which, its result, the callbacks it made
    watch,          \* one successful add, observed until the next remove of
                    \* its key: the key and the value stored
    order,          \* the stored keys of the entries present, oldest first
    live,           \* the references value_clone_function returned that were
                    \* not yet given to value_free_function (logged calls)
    dict            \* a reference dictionary driven by the same calls: the
                    \* keys it holds and their values (logged calls)

vars == <<phase, bucketcount, hashmask, buckets, hashfn, clonefn, freefn,
          last, watch, order, live, dict>>

\* ------------------------------------------------------------ helpers
Min(a, b) == IF a < b THEN a ELSE b

RECURSIVE Pow2(_)
Pow2(n) == IF n = 0 THEN 1 ELSE 2 * Pow2(n - 1)

\* bitwise AND of two naturals
RECURSIVE BitAnd(_, _)
BitAnd(a, b) ==
    IF a = 0 \/ b = 0 THEN 0
    ELSE (a % 2) * (b % 2) + 2 * BitAnd(a \div 2, b \div 2)

\* key[lo] + ... + key[hi], summed by halves
RECURSIVE SumRange(_, _, _)
SumRange(key, lo, hi) ==
    IF lo > hi THEN 0
    ELSE IF lo = hi THEN key[lo]
    ELSE SumRange(key, lo, (lo + hi) \div 2)
         + SumRange(key, (lo + hi) \div 2 + 1, hi)

SumBytes(key, n) == SumRange(key, 1, n)

\* the caller's hash function: deterministic, uint32; here either the sum of
\* the bytes of the key or its first byte
hash_function(h, key, key_size) ==
    IF h = "sum" THEN SumBytes(key, key_size)
    ELSE IF key_size = 0 THEN 0 ELSE key[1]

\* cap: the count requested of hashmap_new; wide: of hashmap_new32, the count
\* requested and the bucketcount and hashmask set;
\* applied, freed: the calls of apply_function and value_free_function made by
\* hashmap_apply and hashmap_destroy; released: the structs hashmap_destroy freed;
\* of a logged add, get or remove: key, alloc: the key passed and the outcome
\* of malloc; out: the reference returned; hashed: the calls of the hash
\* function; cloned: the references the calls of value_clone_function
\* returned; freed, released
NoCall == [op |-> "none", ok |-> FALSE, cap |-> 0,
           applied |-> <<>>, freed |-> <<>>, released |-> <<>>,
           key |-> <<>>, alloc |-> "ok", out |-> [kind |-> "null", of |-> <<>>, n |-> 0],
           hashed |-> 0, cloned |-> <<>>, wide |-> <<>>]

\* ------------------------------------------------------------ hashmap_new
\* for (shifts = 0; count > 1; count >>= 1) shifts++;   (shifts is uint8_t)
RECURSIVE HighestBit(_, _)
HighestBit(count, shifts) ==
    IF count > 1 THEN HighestBit(count \div 2, (shifts + 1) % KeySizeMod)
    ELSE shifts

\* if ((1 << (shifts + 1)) - bucketcount < bucketcount - (1 << shifts)) shifts++;
\* RoundShifts with the comparison <= in place of <
RoundShiftsTiesUp(requested) ==
    LET shifts == HighestBit(requested, 0) IN
    IF Pow2(shifts + 1) - requested <= requested - Pow2(shifts)
    THEN shifts + 1 ELSE shifts

\* 1 << n is an int, defined for n <= 30: that covers every requested count
\* below 2^30, for which neither uint32_t subtraction wraps.
RoundShifts(requested) ==
    LET shifts == HighestBit(requested, 0) IN
    IF Pow2(shifts + 1) - requested < requested - Pow2(shifts)
    THEN shifts + 1 ELSE shifts

\* newmap->bucketcount = (uint32_t)1 << shifts
NewBucketCount(requested) == Pow2(RoundShifts(requested))

hashmap_new(requested, h, clone, free, allocok) ==
    /\ phase = "none"
    /\ IF requested < 1 \/ ~allocok
       THEN /\ last' = [NoCall EXCEPT !.op = "new", !.cap = requested]
            /\ UNCHANGED <<phase, bucketcount, hashmask, buckets, hashfn,
                           clonefn, freefn>>
       ELSE /\ phase' = "live"
            /\ bucketcount' = NewBucketCount(requested)
            /\ buckets' = [i \in 0..(NewBucketCount(requested) - 1) |-> <<>>]
            /\ hashmask' = NewBucketCount(requested) - 1
            /\ hashfn' = h
            /\ clonefn' = clone
            /\ freefn' = free
            /\ last' = [NoCall EXCEPT !.op = "new", !.cap = requested, !.ok = TRUE]
    /\ UNCHANGED <<watch, order, live, dict>>

\* ------------------------------------------- hashmap_new, all of uint32_t
\* the same lines of hashmap_new, on requested counts up to 2^32 - 1
Word(hi, lo) == <<hi, lo>>

\* a - b in uint32_t
Sub32(a, b) ==
    IF a[2] >= b[2]
    THEN Word((a[1] - b[1] + Half) % Half, a[2] - b[2])
    ELSE Word((a[1] - b[1] - 1 + Half) % Half, a[2] - b[2] + Half)

Less32(a, b) == a[1] < b[1] \/ (a[1] = b[1] /\ a[2] < b[2])

\* a & b
BitAnd32(a, b) == Word(BitAnd(a[1], b[1]), BitAnd(a[2], b[2]))

\* a >> 1
Shr32(a) == Word(a[1] \div 2, (a[2] \div 2) + (a[1] % 2) * (Half \div 2))

\* 2^n, n < 32
Shl32(n) == IF n < 16 THEN Word(0, Pow2(n)) ELSE Word(Pow2(n - 16), 0)

\* what a shift the language leaves undefined may give: 0 (the bits are
\* shifted out), 1 (the shift count is taken modulo 32), 2^31 (the sign bit)
ShiftOutcomes == {Word(0, 0), Word(0, 1), Word(Half \div 2, 0)}

\* 1 << n with the int 1, converted to uint32_t: undefined from n = 31 on
IntShl(n, undefined) == IF n < WordBits - 1 THEN Shl32(n) ELSE undefined

\* (uint32_t)1 << n: undefined from n = 32 on
UIntShl(n, undefined) == IF n < WordBits THEN Shl32(n) ELSE undefined

\* for (shifts = 0; count > 1; count >>= 1) shifts++;
RECURSIVE HighestBit32(_, _)
HighestBit32(count, shifts) ==
    IF Less32(Word(0, 1), count)
    THEN HighestBit32(Shr32(count), (shifts + 1) % KeySizeMod)
    ELSE shifts

\* up, down, count: the outcomes of the three shifts where they are undefined
RoundShifts32(requested, up, down) ==
    LET shifts == HighestBit32(requested, 0) IN
    IF Less32(Sub32(IntShl(shifts + 1, up), requested),
              Sub32(requested, IntShl(shifts, down)))
    THEN shifts + 1 ELSE shifts

NewBucketCount32(requested, up, down, count) ==
    UIntShl(RoundShifts32(requested, up, down), count)

\* hashmap_new, bucketcount and hashmask only: they are kept in last.wide, the
\* array is not built and no call on the map follows
hashmap_new32(requested, up, down, count, allocok) ==
    /\ phase = "none"
    /\ IF ~Less32(Word(0, 0), requested) \/ ~allocok
       THEN /\ last' = [NoCall EXCEPT !.op = "new"]
            /\ UNCHANGED phase
       ELSE /\ last' = [NoCall EXCEPT
                         !.op = "new", !.ok = TRUE,
                         !.wide = [cap |-> requested,
                                   bucketcount |->
                                       NewBucketCount32(requested, up, down, count),
                                   hashmask |->
                                       Sub32(NewBucketCount32(requested, up, down,
                                                              count), Word(0, 1))]]
            /\ phase' = "live"
    /\ UNCHANGED <<bucketcount, hashmask, buckets, hashfn, clonefn,
                   freefn, watch, order, live, dict>>

\* ------------------------------------------------------------ entries
\* _hashbucket_new: the key_size parameter is uint8_t; the key copy holds
\* key_size bytes; the value is cloned when a clone function is configured.
_hashbucket_new(key, key_size, value, clone, fresh, cloneok) ==
    LET size == key_size % KeySizeMod IN
    [key |-> SubSeq(key, 1, size),
     key_size |-> size,
     value |-> IF clone THEN (IF cloneok THEN fresh ELSE NULL)
               ELSE value]

\* _hashbucket_free without the test bucket->value != NULL
FreeWithoutNullTest(bucket, free) ==
    IF free
    THEN <<[key |-> bucket.key, value |-> bucket.value]>>
    ELSE <<>>

\* _hashbucket_free: the calls of value_free_function it makes
_hashbucket_free(bucket, free) ==
    IF bucket.value # NULL /\ free
    THEN <<[key |-> bucket.key, value |-> bucket.value]>>
    ELSE <<>>

\* memcmp (stored, probe, n) == 0, where `stored` is an allocation of
\* Len(stored) bytes.  `over` is the outcome of comparing the bytes read past
\* the end of that allocation.
memcmp_eq(stored, probe, n, over) ==
    IF \E i \in 1..Min(n, Len(stored)) : stored[i] # probe[i] THEN FALSE
    ELSE IF n <= Len(stored) THEN TRUE
    ELSE over

\* chain positions at which memcmp reads past the stored key copy
Overreads(chain, probe, n) ==
    {p \in 1..Len(chain) :
        /\ Len(chain[p].key) < n
        /\ \A i \in 1..Len(chain[p].key) : chain[p].key[i] = probe[i]}

\* while (iterator != NULL && memcmp (iterator->key, key, n) != 0)
\*     iterator = iterator->next;
\* the position where the walk stops, Len(chain) + 1 when iterator == NULL
RECURSIVE Walk(_, _, _, _, _)
Walk(chain, p, probe, n, over) ==
    IF p > Len(chain) THEN p
    ELSE IF memcmp_eq(chain[p].key, probe, n, p \in over) THEN p
    ELSE Walk(chain, p + 1, probe, n, over)

RemoveAt(chain, p) ==
    [i \in 1..(Len(chain) - 1) |-> IF i < p THEN chain[i] ELSE chain[i + 1]]

\* ------------------------------------------- _hashmap_hashbucket_insert_at
\* _hashmap_hashbucket_insert_at without the walk that looks for an equal key
InsertWithoutLookup(bkts, newbucket, index, over) ==
    [ok |-> TRUE,
     buckets |-> [bkts EXCEPT ![index] = Append(bkts[index], newbucket)]]

\* the result and the bucket array after the call
_hashmap_hashbucket_insert_at(bkts, newbucket, index, over) ==
    LET chain == bkts[index]
        stop == Walk(chain, 1, newbucket.key, newbucket.key_size, over)
    IN  IF chain = <<>>
        THEN [ok |-> TRUE, buckets |-> [bkts EXCEPT ![index] = <<newbucket>>]]
        ELSE IF stop <= Len(chain)
        THEN [ok |-> FALSE, buckets |-> bkts]
        ELSE [ok |-> TRUE,
              buckets |-> [bkts EXCEPT ![index] = Append(chain, newbucket)]]

\* (*(map->hashmap_hash_function)) (key, key_size) & map->hashmask
Index(key, key_size) == BitAnd(hash_function(hashfn, key, key_size), hashmask)

\* the chain positions where a walk for `key` with length n may over-read
OverreadsFor(bkts, key, n) ==
    IF phase = "live" /\ Len(key) > 0
    THEN Overreads(bkts[Index(key, Len(key))], key, n)
    ELSE {}

AllocOutcomes == {"ok", "nobucket", "nokey"}

\* the entries linked into the chains
RECURSIVE CountFrom(_, _)
CountFrom(bkts, i) ==
    IF i < bucketcount THEN Len(bkts[i]) + CountFrom(bkts, i + 1) ELSE 0

EntryCount == CountFrom(buckets, 0)

Entries(bkts) ==
    {bkts[i][p] : <<i, p>> \in {<<j, q>> \in (DOMAIN bkts) \X (1..MaxEntries + 1) :
                                    q <= Len(bkts[j])}}

\* the reference value_clone_function returns next: one that no entry holds
FreshClone(bkts, key) ==
    IF \E e \in Entries(bkts) : e.value = Clone(key, 1)
    THEN Clone(key, 2) ELSE Clone(key, 1)

\* `seq` without its first occurrence of key
RECURSIVE Without(_, _)
Without(seq, key) ==
    IF seq = <<>> THEN <<>>
    ELSE IF Head(seq) = key THEN Tail(seq)
    ELSE <<Head(seq)>> \o Without(Tail(seq), key)

NoBucket == [key |-> <<>>, key_size |-> 0, value |-> NULL]

\* ------------------------------------------------------------ hashmap_add
\* the result, the bucket array after the call, the entry built, the calls of
\* the hash function and of value_free_function, and what the calls of
\* value_clone_function returned
\* return false before, or because, _hashbucket_new returned NULL
AddFailed(bkts) ==
    [ok |-> FALSE, buckets |-> bkts, newbucket |-> NoBucket,
     hashed |-> 0, cloned |-> <<>>, freed |-> <<>>, released |-> <<>>]

\* the call from the point where _hashbucket_new has its two allocations
AddBuilt(bkts, key, value, cloneok, over) ==
    LET newbucket == _hashbucket_new(key, Len(key), value, clonefn,
                                      FreshClone(bkts, key), cloneok)
        ins == _hashmap_hashbucket_insert_at(
                   bkts, newbucket, Index(key, Len(key)), over)
    IN  [ok |-> ins.ok, buckets |-> ins.buckets, newbucket |-> newbucket,
         hashed |-> 1,
         cloned |-> IF clonefn THEN <<newbucket.value>> ELSE <<>>,
         freed |-> IF ins.ok THEN <<>>
                   ELSE _hashbucket_free(newbucket, freefn),
         released |-> IF ins.ok THEN <<>> ELSE <<newbucket.key>>]

\* hashmap_add without the test key_size == 0
AddWithoutEmptyTest(bkts, key, value, alloc, cloneok, over) ==
    IF phase # "live" \/ alloc # "ok"
    THEN AddFailed(bkts)
    ELSE AddBuilt(bkts, key, value, cloneok, over)

\* hashmap_add going on with an entry whose key copy was not allocated
AddWithoutKeyTest(bkts, key, value, alloc, cloneok, over) ==
    IF phase # "live" \/ Len(key) = 0 \/ alloc = "nobucket"
    THEN AddFailed(bkts)
    ELSE AddBuilt(bkts, key, value, cloneok, over)

hashmap_add(bkts, key, value, alloc, cloneok, over) ==
    IF phase # "live" \/ Len(key) = 0 \/ alloc # "ok"
    THEN AddFailed(bkts)
    ELSE AddBuilt(bkts, key, value, cloneok, over)

\* ------------------------------------------------------------ hashmap_get
\* the value returned, and the calls of the hash function
\* hashmap_get returning a copy of the value found
GetReturningCopy(bkts, key, over) ==
    IF phase # "live" \/ Len(key) = 0
    THEN [out |-> NULL, hashed |-> 0]
    ELSE LET chain == bkts[Index(key, Len(key))]
             stop == Walk(chain, 1, key, Len(key), over)
         IN  IF stop > Len(chain)
             THEN [out |-> NULL, hashed |-> 1]
             ELSE [out |-> Clone(chain[stop].key, 0), hashed |-> 1]

hashmap_get(bkts, key, over) ==
    IF phase # "live" \/ Len(key) = 0
    THEN [out |-> NULL, hashed |-> 0]
    ELSE LET hash == Index(key, Len(key)) IN
         IF hash >= bucketcount \/ bkts[hash] = <<>>
         THEN [out |-> NULL, hashed |-> 1]
         ELSE LET chain == bkts[hash]
                  stop == Walk(chain, 1, key, Len(key), over)
              IN  IF stop > Len(chain)
                  THEN [out |-> NULL, hashed |-> 1]
                  ELSE [out |-> chain[stop].value, hashed |-> 1]

\* --------------------------------------------------------- hashmap_remove
\* the result, the bucket array after the call, and the calls made
\* hashmap_remove unlinking the entry with free () in place of _hashbucket_free
RemoveWithoutValueFree(bkts, key, over) ==
    IF phase # "live" \/ Len(key) = 0
    THEN [ok |-> FALSE, buckets |-> bkts, hashed |-> 0,
          freed |-> <<>>, released |-> <<>>]
    ELSE LET hash == Index(key, Len(key))
             chain == bkts[hash]
             stop == Walk(chain, 1, key, Len(key), over)
         IN  IF stop > Len(chain)
             THEN [ok |-> FALSE, buckets |-> bkts, hashed |-> 1,
                   freed |-> <<>>, released |-> <<>>]
             ELSE [ok |-> TRUE,
                   buckets |-> [bkts EXCEPT ![hash] = RemoveAt(chain, stop)],
                   hashed |-> 1,
                   freed |-> <<>>,
                   released |-> <<chain[stop].key>>]

hashmap_remove(bkts, key, over) ==
    IF phase # "live" \/ Len(key) = 0
    THEN [ok |-> FALSE, buckets |-> bkts, hashed |-> 0,
          freed |-> <<>>, released |-> <<>>]
    ELSE LET hash == Index(key, Len(key)) IN
         IF hash >= bucketcount \/ bkts[hash] = <<>>
         THEN [ok |-> FALSE, buckets |-> bkts, hashed |-> 1,
               freed |-> <<>>, released |-> <<>>]
         ELSE LET chain == bkts[hash]
                  stop == Walk(chain, 1, key, Len(key), over)
              IN  IF stop > Len(chain)
                  THEN [ok |-> FALSE, buckets |-> bkts, hashed |-> 1,
                        freed |-> <<>>, released |-> <<>>]
                  ELSE [ok |-> TRUE,
                        buckets |-> [bkts EXCEPT ![hash] = RemoveAt(chain, stop)],
                        hashed |-> 1,
                        freed |-> _hashbucket_free(chain[stop], freefn),
                        released |-> <<chain[stop].key>>]

\* ---------------------------------------------------------- hashmap_apply
\* _hashbucket_apply starting at bucket->next
RECURSIVE ApplySkippingHead(_, _)
ApplySkippingHead(chain, p) ==
    IF p >= Len(chain) THEN <<>>
    ELSE <<[key |-> chain[p + 1].key, value |-> chain[p + 1].value]>>
         \o ApplySkippingHead(chain, p + 1)

\* _hashbucket_apply: the calls of apply_function made along one chain from
\* position p on, each with the stored key of the entry whose value is passed
RECURSIVE _hashbucket_apply(_, _)
_hashbucket_apply(chain, p) ==
    IF p > Len(chain) THEN <<>>
    ELSE <<[key |-> chain[p].key, value |-> chain[p].value]>>
         \o _hashbucket_apply(chain, p + 1)

\* the calls made for bucket i, with that index
InBucket(calls, i) ==
    [c \in 1..Len(calls) |->
        [bucket |-> i, key |-> calls[c].key, value |-> calls[c].value]]

\* for (i = 0; i < map->bucketcount; i++) _hashbucket_apply (map->buckets[i], f)
RECURSIVE ApplyFrom(_, _)
ApplyFrom(bkts, i) ==
    IF i < bucketcount
    THEN InBucket(_hashbucket_apply(bkts[i], 1), i) \o ApplyFrom(bkts, i + 1)
    ELSE <<>>

\* the calls of apply_function, in order
hashmap_apply(bkts, fn) ==
    IF phase # "live" \/ ~fn THEN <<>> ELSE ApplyFrom(bkts, 0)

\* -------------------------------------------------------- hashmap_destroy
\* _hashbucket_free_all: value_free_function calls made along one chain
RECURSIVE _hashbucket_free_all(_, _, _)
_hashbucket_free_all(chain, p, free) ==
    IF p > Len(chain) THEN <<>>
    ELSE _hashbucket_free(chain[p], free) \o _hashbucket_free_all(chain, p + 1, free)

\* the structs released along one chain, by stored key
RECURSIVE ReleasedAll(_, _)
ReleasedAll(chain, p) ==
    IF p > Len(chain) THEN <<>>
    ELSE <<chain[p].key>> \o ReleasedAll(chain, p + 1)

\* for (i = 0; i < map->bucketcount; i++) _hashbucket_free_all (...):
\* the calls of value_free_function
RECURSIVE FreedFrom(_, _)
FreedFrom(bkts, i) ==
    IF i < bucketcount
    THEN _hashbucket_free_all(bkts[i], 1, freefn) \o FreedFrom(bkts, i + 1)
    ELSE <<>>

\* the structs that loop releases
RECURSIVE ReleasedFrom(_, _)
ReleasedFrom(bkts, i) ==
    IF i < bucketcount
    THEN ReleasedAll(bkts[i], 1) \o ReleasedFrom(bkts, i + 1)
    ELSE <<>>

\* the calls of value_free_function and the structs released
hashmap_destroy(bkts) ==
    IF phase # "live" THEN [freed |-> <<>>, released |-> <<>>]
    ELSE [freed |-> FreedFrom(bkts, 0), released |-> ReleasedFrom(bkts, 0)]

\* ------------------------------------------------------------ behaviours
\* the values given to value_free_function by a sequence of its calls
FreedValues(freed) == {freed[j].value : j \in 1..Len(freed)}

\* the references a sequence of value_clone_function calls returned
ClonedValues(cloned) == {cloned[j] : j \in 1..Len(cloned)} \ {NULL}

\* the reference dictionary: a set of [key, value], at most one per key
DictKeys(d) == {e.key : e \in d}

DictAdd(d, key, value) ==
    IF key \in DictKeys(d) THEN d ELSE d \cup {[key |-> key, value |-> value]}

DictRemove(d, key) == {e \in d : e.key # key}

NoWatch == [st |-> "none", key |-> <<>>, value |-> NULL]

Init ==
    /\ phase = "none"
    /\ bucketcount = 0
    /\ hashmask = 0
    /\ buckets = <<>>
    /\ hashfn = "sum"
    /\ clonefn = FALSE
    /\ freefn = FALSE
    /\ last = NoCall
    /\ watch = NoWatch
    /\ order = <<>>
    /\ live = {}
    /\ dict = {}

New ==
    \E requested \in 0..MaxCap, h \in HashIds, clone \in BOOLEAN,
       free \in BOOLEAN, allocok \in BOOLEAN :
        hashmap_new(requested, h, clone, free, allocok)

\* keys: the keys the caller passes; tracks: whether the add may be taken as
\* the watched one; max: the bound on the entries present; log: whether the
\* call is logged in full
Add(keys, tracks, max, log) ==
    /\ phase # "destroyed"
    /\ \E key \in keys, value \in CallerValues, alloc \in AllocOutcomes :
       \E cloneok \in (IF clonefn /\ alloc = "ok" THEN BOOLEAN ELSE {TRUE}),
          track \in (IF alloc = "ok" THEN tracks ELSE {FALSE}),
          over \in SUBSET OverreadsFor(buckets, key, Len(key) % KeySizeMod) :
            LET r == hashmap_add(buckets, key, value, alloc, cloneok, over) IN
            /\ r.ok => EntryCount < max
            /\ buckets' = r.buckets
            /\ last' = IF log
                        THEN [NoCall EXCEPT !.op = "add", !.ok = r.ok,
                                            !.key = key, !.alloc = alloc,
                                            !.hashed = r.hashed,
                                            !.cloned = r.cloned,
                                            !.freed = r.freed,
                                            !.released = r.released]
                        ELSE [NoCall EXCEPT !.op = "add", !.ok = r.ok]
            /\ live' = IF log
                        THEN (live \cup ClonedValues(r.cloned))
                                 \ FreedValues(r.freed)
                        ELSE live
            /\ dict' = IF log /\ alloc = "ok" /\ Len(key) > 0
                        THEN DictAdd(dict, key, r.newbucket.value)
                        ELSE dict
            /\ order' = IF r.ok THEN Append(order, r.newbucket.key) ELSE order
            /\ watch' = IF r.ok /\ track
                        THEN [st |-> "added", key |-> key,
                              value |-> r.newbucket.value]
                        ELSE watch
    /\ UNCHANGED <<phase, bucketcount, hashmask, hashfn, clonefn, freefn>>

Get(keys, log) ==
    /\ phase # "destroyed"
    /\ \E key \in keys : \E over \in SUBSET OverreadsFor(buckets, key, Len(key)) :
            LET r == hashmap_get(buckets, key, over) IN
            last' = IF log
                    THEN [NoCall EXCEPT !.op = "get", !.ok = (r.out # NULL),
                                        !.key = key, !.out = r.out,
                                        !.hashed = r.hashed]
                    ELSE [NoCall EXCEPT !.op = "get", !.ok = (r.out # NULL)]
    /\ UNCHANGED <<phase, bucketcount, hashmask, buckets, hashfn, clonefn,
                   freefn, order, watch, live, dict>>

Remove(keys, log) ==
    /\ phase # "destroyed"
    /\ \E key \in keys : \E over \in SUBSET OverreadsFor(buckets, key, Len(key)) :
            LET r == hashmap_remove(buckets, key, over) IN
            /\ buckets' = r.buckets
            /\ last' = IF log
                        THEN [NoCall EXCEPT !.op = "remove", !.ok = r.ok,
                                            !.key = key, !.hashed = r.hashed,
                                            !.freed = r.freed,
                                            !.released = r.released]
                        ELSE [NoCall EXCEPT !.op = "remove", !.ok = r.ok]
            /\ live' = live \ FreedValues(r.freed)
            /\ dict' = IF log THEN DictRemove(dict, key) ELSE dict
            /\ order' = IF r.ok THEN Without(order, r.released[1]) ELSE order
            /\ watch' = IF watch.key = key THEN NoWatch ELSE watch
    /\ UNCHANGED <<phase, bucketcount, hashmask, hashfn, clonefn, freefn>>

Apply ==
    /\ phase # "destroyed"
    /\ \E fn \in BOOLEAN :
            last' = [NoCall EXCEPT !.op = "apply", !.ok = (phase = "live" /\ fn),
                                   !.applied = hashmap_apply(buckets, fn)]
    /\ UNCHANGED <<phase, bucketcount, hashmask, buckets, hashfn, clonefn,
                   freefn, order, watch, live, dict>>

Destroy ==
    /\ phase # "destroyed"
    /\ IF phase = "none"
       THEN /\ last' = [NoCall EXCEPT !.op = "destroy"]
            /\ UNCHANGED <<phase, bucketcount, hashmask, buckets, order, watch,
                           live, dict>>
       ELSE /\ last' = [NoCall EXCEPT !.op = "destroy", !.ok = TRUE,
                                      !.freed = hashmap_destroy(buckets).freed,
                                      !.released = hashmap_destroy(buckets).released]
            /\ phase' = "destroyed"
            /\ buckets' = <<>>
            /\ bucketcount' = 0
            /\ hashmask' = 0
            /\ order' = <<>>
            /\ watch' = NoWatch
            /\ live' = live \ FreedValues(hashmap_destroy(buckets).freed)
            /\ dict' = {}
    /\ UNCHANGED <<hashfn, clonefn, freefn>>

Next ==
    \/ New
    \/ Add(Keys, {FALSE}, MaxEntries, FALSE)
    \/ Get(Keys, FALSE)
    \/ Remove(Keys, FALSE)
    \/ Apply
    \/ Destroy

Spec == Init /\ [][Next]_vars

\* the same calls, with one successful add under watch
WatchNext ==
    \/ New
    \/ Add(Keys, BOOLEAN, MaxWatchEntries, FALSE)
    \/ Get(Keys, FALSE)
    \/ Remove(Keys, FALSE)
    \/ Apply
    \/ Destroy

WatchSpec == Init /\ [][WatchNext]_vars

\* hashmap_new alone, over a wider range of requested counts
NewSizing ==
    \E requested \in 0..MaxSizingCap, allocok \in BOOLEAN :
        hashmap_new(requested, "sum", FALSE, FALSE, allocok)

SizingNext == NewSizing \/ Destroy

SizingSpec == Init /\ [][SizingNext]_vars

\* the calls with keys longer than 255 bytes
LongKeyNext ==
    \/ New
    \/ Add(LongKeys, {FALSE}, MaxLongEntries, FALSE)
    \/ Get(LongKeys, FALSE)
    \/ Remove(LongKeys, FALSE)
    \/ Apply
    \/ Destroy

LongKeySpec == Init /\ [][LongKeyNext]_vars

\* hashmap_new over the whole of uint32_t: around every power of two, the
\* count 0 and the largest count
WideCaps ==
    {Word(0, 0), Word(Half - 1, Half - 1)}
    \cup {Shl32(e) : e \in 0..(WordBits - 1)}
    \cup {Sub32(Shl32(e), Word(0, 1)) : e \in 1..(WordBits - 1)}
    \cup {Sub32(Shl32(e), Sub32(Word(0, 0), Shl32(e - 1))) :
              e \in 1..(WordBits - 1)}
    \cup {Sub32(Shl32(e), Sub32(Word(0, 0),
                                Sub32(Shl32(e - 1), Word(Half - 1, Half - 1)))) :
              e \in 1..(WordBits - 1)}

NewWide ==
    \E requested \in WideCaps, up \in ShiftOutcomes, down \in ShiftOutcomes,
       count \in ShiftOutcomes, allocok \in BOOLEAN :
        hashmap_new32(requested, up, down, count, allocok)

WideNext == NewWide

WideSpec == Init /\ [][WideNext]_vars

\* the calls logged in full: what each was given, returned and called
NewLogged ==
    \E requested \in 0..MaxCap, clone \in BOOLEAN, free \in BOOLEAN,
       allocok \in BOOLEAN :
        hashmap_new(requested, "sum", clone, free, allocok)

LoggedNext ==
    \/ NewLogged
    \/ Add(LoggedKeys, {FALSE}, MaxLoggedEntries, TRUE)
    \/ Get(LoggedKeys, TRUE)
    \/ Remove(LoggedKeys, TRUE)
    \/ Apply
    \/ Destroy

LoggedSpec == Init /\ [][LoggedNext]_vars

\* ================================================================ claims
\* what the claims call "the entry whose key equals k in length and content"
ChainOf(bkts, k) == bkts[Index(k, Len(k))]

ExactAt(bkts, k) ==
    {p \in 1..Len(ChainOf(bkts, k)) :
        /\ ChainOf(bkts, k)[p].key = k
        /\ ChainOf(bkts, k)[p].key_size = Len(k)}

Present(k) == ExactAt(buckets, k) # {}

ExactPos(k) == CHOOSE p \in ExactAt(buckets, k) : TRUE

ValueOf(k) == ChainOf(buckets, k)[ExactPos(k)].value

RealKeys == Keys \ {<<>>}

\* C1: once add(k, v) has returned true, every get(k) returns the value stored
\* by that add, until remove(k) is called, whatever other calls are made
C1_RoundTrip ==
    watch.st = "added" =>
        \A over \in SUBSET OverreadsFor(buckets, watch.key, Len(watch.key)) :
            hashmap_get(buckets, watch.key, over).out = watch.value

\* C2: after a successful add(k, v), remove(k) returns true, and then get(k)
\* returns NULL and remove(k) returns false
C2_RemoveThenLookup ==
    watch.st = "added" =>
        \A over \in SUBSET OverreadsFor(buckets, watch.key, Len(watch.key)) :
            LET r == hashmap_remove(buckets, watch.key, over) IN
            /\ r.ok
            /\ \A after \in SUBSET OverreadsFor(r.buckets, watch.key, Len(watch.key)) :
                /\ hashmap_get(r.buckets, watch.key, after).out = NULL
                /\ ~hashmap_remove(r.buckets, watch.key, after).ok

\* C3: when k is present with value v1, add(k, v2) returns false, leaves every
\* chain as it was, and get(k) still returns v1
C3_NoDuplicateInsert ==
    phase = "live" =>
        \A k \in RealKeys : Present(k) =>
            \A v2 \in CallerValues, cloneok \in BOOLEAN,
               over \in SUBSET OverreadsFor(buckets, k, Len(k)) :
                LET r == hashmap_add(buckets, k, v2, "ok", cloneok, over) IN
                /\ ~r.ok
                /\ r.buckets = buckets
                /\ \A after \in SUBSET OverreadsFor(r.buckets, k, Len(k)) :
                       hashmap_get(r.buckets, k, after).out = ValueOf(k)

\* C4: with allocation succeeding, add(k, v) returns true and appends the new
\* entry at the tail of the chain of k exactly when no entry with the same
\* length and bytes as k is present; otherwise it returns false
C4_InsertAcceptance ==
    phase = "live" =>
        \A k \in RealKeys, v \in CallerValues, cloneok \in BOOLEAN :
            \A over \in SUBSET OverreadsFor(buckets, k, Len(k)) :
                LET r == hashmap_add(buckets, k, v, "ok", cloneok, over) IN
                IF Present(k)
                THEN ~r.ok
                ELSE /\ r.ok
                     /\ r.buckets = [buckets EXCEPT ![Index(k, Len(k))] =
                                        Append(@, r.newbucket)]

\* C5: get(k) returns the value of the entry whose key equals k in length and
\* content, and NULL when there is no such entry
C5_LookupExact ==
    phase = "live" =>
        \A k \in RealKeys :
            \A over \in SUBSET OverreadsFor(buckets, k, Len(k)) :
                hashmap_get(buckets, k, over).out =
                    IF Present(k) THEN ValueOf(k) ELSE NULL

\* the power of two nearest to c; `up` tells which one wins a tie
RECURSIVE IsPowerOfTwo(_)
IsPowerOfTwo(p) ==
    IF p = 1 THEN TRUE
    ELSE IF p < 1 \/ p % 2 = 1 THEN FALSE
    ELSE IsPowerOfTwo(p \div 2)

Dist(a, b) == IF a >= b THEN a - b ELSE b - a

NearestPowerOfTwo(c, p, up) ==
    /\ IsPowerOfTwo(p)
    /\ \A q \in 1..(2 * c) : (IsPowerOfTwo(q) /\ q # p) =>
          \/ Dist(p, c) < Dist(q, c)
          \/ Dist(p, c) = Dist(q, c) /\ (IF up THEN p > q ELSE p < q)

C7_Uniqueness ==
    \A i \in DOMAIN buckets :
        \A p, q \in 1..Len(buckets[i]) :
            p # q => ~(/\ buckets[i][p].key = buckets[i][q].key
                       /\ buckets[i][p].key_size = buckets[i][q].key_size)

\* a remove has just left a chain of two entries or more
C7_Witness ==
    /\ last.op = "remove" /\ last.ok
    /\ \E i \in DOMAIN buckets : Len(buckets[i]) >= 2

\* C8: remove(k) of a present k returns true and unlinks exactly the entry
\* whose key equals k in length and content, keeping every other entry and the
\* order of every chain; remove(k) of an absent k returns false and unlinks
\* nothing
C8_RemoveFrame ==
    phase = "live" =>
        \A k \in RealKeys :
            \A over \in SUBSET OverreadsFor(buckets, k, Len(k)) :
                LET r == hashmap_remove(buckets, k, over) IN
                IF Present(k)
                THEN /\ r.ok
                     /\ r.buckets = [buckets EXCEPT ![Index(k, Len(k))] =
                                        RemoveAt(@, ExactPos(k))]
                ELSE /\ ~r.ok
                     /\ r.buckets = buckets

\* the place of a stored key in a sequence of stored keys
Pos(seq, key) == CHOOSE j \in 1..Len(seq) : seq[j] = key

\* C9: apply calls f once on the value of each entry present and on nothing
\* else, in ascending bucket index and, within a bucket, in the order in which
\* the entries were inserted
C9_ApplyCoverage ==
    (last.op = "apply" /\ last.ok) =>
        LET calls == last.applied IN
        /\ Len(calls) = EntryCount
        /\ \A i \in DOMAIN buckets : \A p \in 1..Len(buckets[i]) :
              Cardinality({j \in 1..Len(calls) :
                              /\ calls[j].bucket = i
                              /\ calls[j].key = buckets[i][p].key
                              /\ calls[j].value = buckets[i][p].value}) = 1
        /\ \A j1, j2 \in 1..Len(calls) : j1 < j2 =>
              \/ calls[j1].bucket < calls[j2].bucket
              \/ /\ calls[j1].bucket = calls[j2].bucket
                 /\ Pos(order, calls[j1].key) < Pos(order, calls[j2].key)

\* apply has run over three entries that lie in two buckets
C9_Witness ==
    /\ last.op = "apply" /\ last.ok
    /\ Len(last.applied) = 3
    /\ last.applied[1].bucket # last.applied[3].bucket

\* the calls of value_free_function that pass the value of entry e
FreedFor(freed, e) ==
    {j \in 1..Len(freed) : freed[j].key = e.key /\ freed[j].value = e.value}

\* C10 as stated: with a free function, destroy calls it exactly once for each
\* entry present, whatever the stored value, a NULL one included; without a
\* free function it calls nothing
C10_DestroyFreesAll ==
    [][(last'.op = "destroy" /\ last'.ok) =>
          IF freefn
          THEN /\ Len(last'.freed) = EntryCount
               /\ \A e \in Entries(buckets) :
                      Cardinality(FreedFor(last'.freed, e)) = 1
          ELSE last'.freed = <<>>]_vars

\* C10 as amended: with a free function, destroy calls it exactly once for each
\* entry present whose stored value is not NULL and never for an entry whose
\* stored value is NULL; without a free function it calls nothing
C10_DestroyFrees ==
    [][(last'.op = "destroy" /\ last'.ok) =>
          IF freefn
          THEN /\ Len(last'.freed) =
                      Cardinality({e \in Entries(buckets) : e.value # NULL})
               /\ \A e \in Entries(buckets) :
                      Cardinality(FreedFor(last'.freed, e)) =
                          IF e.value # NULL THEN 1 ELSE 0
          ELSE last'.freed = <<>>]_vars

\* destroy released entries of which some, not all, had a value to free
C10_Witness ==
    /\ last.op = "destroy" /\ last.ok
    /\ freefn
    /\ Len(last.freed) >= 1
    /\ Len(last.released) > Len(last.freed)

\* C11: when add(k, v2) is rejected because k is present, value_free_function
\* is given nothing but the clone made of v2 by this call: not the caller's v2
\* when no clone function is configured, and no value stored in the map, so
\* that no value get can return afterwards has been freed
C11_RejectedInsertReleases ==
    phase = "live" =>
        \A k \in RealKeys : Present(k) =>
            \A v2 \in CallerValues, cloneok \in BOOLEAN,
               over \in SUBSET OverreadsFor(buckets, k, Len(k)) :
                LET r == hashmap_add(buckets, k, v2, "ok", cloneok, over) IN
                /\ ~r.ok
                /\ ~clonefn => r.freed = <<>>
                /\ clonefn => FreedValues(r.freed) \subseteq {FreshClone(buckets, k)}
                /\ \A e \in Entries(r.buckets) : e.value \notin FreedValues(r.freed)

\* C12: a successful add of a key of L bytes, L > 255 included, stores an entry
\* whose key_size is L and whose key copy holds all L bytes
C12_FullKeyStorage ==
    phase = "live" =>
        \A k \in LongKeys, v \in CallerValues, cloneok \in BOOLEAN :
            \A over \in SUBSET OverreadsFor(buckets, k, Len(k) % KeySizeMod) :
                LET r == hashmap_add(buckets, k, v, "ok", cloneok, over) IN
                r.ok => /\ r.newbucket.key_size = Len(k)
                        /\ r.newbucket.key = k

\* the map as add, get, remove and apply see it is the same after the step
MapUnchanged ==
    /\ phase' = phase
    /\ bucketcount' = bucketcount
    /\ hashmask' = hashmask
    /\ buckets' = buckets
    /\ hashfn' = hashfn
    /\ clonefn' = clonefn
    /\ freefn' = freefn

\* C13: add, get and remove with key_size 0 return false, NULL and false, call
\* neither the hash function nor value_clone_function nor value_free_function,
\* and leave the map unchanged
C13_EmptyKeyRejected ==
    [][(last'.op \in {"add", "get", "remove"} /\ last'.key = <<>>) =>
          /\ ~last'.ok
          /\ last'.out = NULL
          /\ last'.hashed = 0
          /\ last'.cloned = <<>>
          /\ last'.freed = <<>>
          /\ last'.released = <<>>
          /\ MapUnchanged]_vars

\* add was called with an empty key on a map that holds an entry and has both
\* a clone and a free function
C13_Witness ==
    /\ phase = "live"
    /\ last.op = "add" /\ last.key = <<>> /\ last.alloc = "ok"
    /\ clonefn /\ freefn
    /\ EntryCount >= 1

\* C14: when the allocation of the entry or of its key copy fails, add returns
\* false, links no entry, calls neither value_clone_function nor
\* value_free_function, and leaves the map as it was, so that every later get,
\* remove and apply sees the map the add was never attempted on
C14_AllocationFailureAtomic ==
    [][(last'.op = "add" /\ last'.alloc # "ok") =>
          /\ ~last'.ok
          /\ last'.cloned = <<>>
          /\ last'.freed = <<>>
          /\ last'.released = <<>>
          /\ MapUnchanged
          /\ order' = order
          /\ live' = live
          /\ \A k \in LoggedKeys :
               \A over \in SUBSET OverreadsFor(buckets, k, Len(k)) :
                  hashmap_get(buckets, k, over)' = hashmap_get(buckets, k, over)
          /\ hashmap_apply(buckets, TRUE)' = hashmap_apply(buckets, TRUE)]_vars

\* the key copy of an add with a non-empty key could not be allocated, on a map
\* that holds an entry and has both a clone and a free function
C14_Witness ==
    /\ phase = "live"
    /\ last.op = "add" /\ last.alloc = "nokey" /\ last.key # <<>>
    /\ clonefn /\ freefn
    /\ EntryCount >= 1

IsPowerOfTwo32(a) ==
    \/ a[1] = 0 /\ IsPowerOfTwo(a[2])
    \/ a[2] = 0 /\ IsPowerOfTwo(a[1])

\* hashes whose index is looked at: no bit set, every bit set, one bit set
SomeHashes ==
    {Word(0, 0), Word(Half - 1, Half - 1)} \cup {Shl32(e) : e \in 0..(WordBits - 1)}

\* C15: for every requested count from 1 to 2^32 - 1, hashmap_new sets
\* bucketcount to a power of two that is at least 1 and hashmask to
\* bucketcount - 1, so that hash & hashmask is below bucketcount
C15_ValidIndex ==
    (last.op = "new" /\ last.ok /\ last.wide # <<>>) =>
        /\ Less32(Word(0, 0), last.wide.bucketcount)
        /\ IsPowerOfTwo32(last.wide.bucketcount)
        /\ last.wide.hashmask = Sub32(last.wide.bucketcount, Word(0, 1))
        /\ \A hash \in SomeHashes :
              Less32(BitAnd32(hash, last.wide.hashmask), last.wide.bucketcount)

\* every entry lies in the chain its stored key hashes to, and in that one only
Placement ==
    /\ \A i \in DOMAIN buckets : \A p \in 1..Len(buckets[i]) :
          Index(buckets[i][p].key, buckets[i][p].key_size) = i
    /\ \A i, j \in DOMAIN buckets : \A p \in 1..Len(buckets[i]) :
          \A q \in 1..Len(buckets[j]) :
              (buckets[i][p].key = buckets[j][q].key) => (i = j /\ p = q)

\* C16: add and remove leave bucketcount and hashmask at the values set at
\* construction, and every entry of the chain of bucket i has a stored key
\* (its bytes, with the stored key_size) whose hash & hashmask is i, each entry
\* being linked in exactly one chain
C16_BucketPlacement ==
    [][phase' = "live" =>
          /\ phase = "live" => (bucketcount' = bucketcount /\ hashmask' = hashmask)
          /\ Placement']_vars

\* what the reference dictionary holds under key, NULL when it holds nothing
DictValue(d, key) ==
    IF key \in DictKeys(d)
    THEN (CHOOSE e \in d : e.key = key).value
    ELSE NULL

\* C17: whatever the bucket count and the hash function, every add, get and
\* remove returns what a reference dictionary driven by the same calls
\* returns: add succeeds exactly on an absent key, get returns the value held,
\* remove succeeds exactly on a present key
C17_MatchesDictionary ==
    [][(phase = "live" /\ last'.key # <<>>) =>
          /\ (last'.op = "add" /\ last'.alloc = "ok") =>
                 (last'.ok <=> last'.key \notin DictKeys(dict))
          /\ last'.op = "get" => last'.out = DictValue(dict, last'.key)
          /\ last'.op = "remove" =>
                 (last'.ok <=> last'.key \in DictKeys(dict))]_vars

\* C18: with a clone and a free function, value_free_function is given only
\* references value_clone_function returned and it was not given before, none
\* twice and none that an entry still holds; every such reference not yet
\* freed is held by an entry, and after destroy none is left
C18_CloneLifecycle ==
    [][(clonefn' /\ freefn') =>
          LET freed == last'.freed
              made == ClonedValues(last'.cloned)
              held == {e.value : e \in Entries(buckets')} \ {NULL}
          IN  /\ made \cap live = {}
              /\ FreedValues(freed) \subseteq (live \cup made)
              /\ \A i, j \in 1..Len(freed) :
                    freed[i].value = freed[j].value => i = j
              /\ held \cap FreedValues(freed) = {}
              /\ live' = held
              /\ phase' = "destroyed" => live' = {}]_vars

\* destroy freed the clones of two entries
C18_Witness ==
    /\ last.op = "destroy" /\ last.ok
    /\ clonefn /\ freefn
    /\ Len(last.freed) = 2
    /\ live = {}

\* C19: get, whether it finds the key or not, leaves bucketcount, hashmask,
\* every chain and every stored key and value as they were, calls neither
\* value_clone_function nor value_free_function, and returns NULL or the very
\* reference an entry holds
C19_LookupReadOnly ==
    [][last'.op = "get" =>
          /\ MapUnchanged
          /\ order' = order
          /\ live' = live
          /\ last'.cloned = <<>>
          /\ last'.freed = <<>>
          /\ last'.released = <<>>
          /\ \/ last'.out = NULL
             \/ \E e \in Entries(buckets) : e.value = last'.out]_vars

\* get found a key in a map with a clone function that holds two entries
C19_Witness ==
    /\ last.op = "get" /\ last.ok
    /\ last.out.kind = "clone"
    /\ EntryCount = 2

====
